---- MODULE Spec2Model ----
(***************************************************************************)
(* gdwg::graph<N, E> (src/src/gdwg_graph.h): a directed graph with unique  *)
(* nodes and optionally weighted edges, stored as std::map<N, vector<edge>>.*)
(* Node values are the integers 1..MaxNode, weights are 1..MaxWeight, and   *)
(* std::nullopt (an unweighted edge) is the value nullopt.  Every member    *)
(* function is an operator from the adjacency list (and the arguments) to   *)
(* the adjacency list it leaves and the value it returns; the actions call  *)
(* the member functions on the graph under test and record the call.        *)
(***************************************************************************)
EXTENDS Integers, Sequences, FiniteSets, TLC

\* ---------------------------------------------------------------- bounds
\* node values are 1..MaxNode
MaxNode == 3
\* weights are 1..MaxWeight
MaxWeight == 2
\* insert_edge is not called on a graph that already stores MaxEdges edges
MaxEdges == 3
\* the constructors are given at most MaxList values
MaxList == 3
\* SpecEq: each of the two compared graphs stores at most MaxEqEdges edges
MaxEqEdges == 2

\* std::nullopt: the weight of an unweighted edge
nullopt == 0
\* adjacency_list_.end(): the past-the-end position of the node map
node_end == 0

Node == 1..MaxNode
Weight == 1..MaxWeight
OptWeight == {nullopt} \cup Weight

VARIABLES
    adjacency_list_,  \* the graph under test: node -> sequence of edges
    other,            \* a second graph, the right operand of operator==
    pre,              \* adjacency_list_ as it was before the last call
    op,               \* name of the last member function called
    args,             \* its arguments
    ret,              \* its result: "true", "false", "void", "iterator" or the exception
    ret_it,           \* the iterator it returned (end() when it returns none)
    ret_seq,          \* the std::vector it returned (empty when it returns none)
    inserted          \* SpecEq: per graph, the values given to insert_node and the
                      \* edges given to insert_edge so far, order and repetitions forgotten

vars == <<adjacency_list_, other, pre, op, args, ret, ret_it, ret_seq, inserted>>

\* ------------------------------------------------------------ edge record
\* edge<N, E>: from_, to_ and the optional weight
create_edge(src, dst, weight) == [from |-> src, to |-> dst, weight |-> weight]

is_weighted(e) == e.weight # nullopt

\* the comparator of sort_edges: a sorts strictly before b
edge_less(a, b) ==
    IF a.to # b.to THEN a.to < b.to
    ELSE IF is_weighted(a) # is_weighted(b) THEN ~is_weighted(a) /\ is_weighted(b)
    ELSE IF is_weighted(a) THEN a.weight < b.weight
    ELSE FALSE

\* ----------------------------------------------------------- sequences
RECURSIVE insert_sorted(_, _)
insert_sorted(s, e) ==
    IF s = <<>> THEN <<e>>
    ELSE IF edge_less(e, Head(s)) THEN <<e>> \o s
    ELSE <<Head(s)>> \o insert_sorted(Tail(s), e)

\* std::sort with the comparator edge_less.  Elements the comparator holds
\* equivalent are equal records whenever every edge's from_ is its map key
\* (EdgesCarryTheirKey below), so the result does not depend on the algorithm.
\* sort_edges as it would be if it left the list as it is
sort_edges_none(edges) == edges

RECURSIVE sort_edges(_)
sort_edges(edges) ==
    IF edges = <<>> THEN <<>>
    ELSE insert_sorted(sort_edges(SubSeq(edges, 1, Len(edges) - 1)), edges[Len(edges)])

\* std::unique with the predicate of merge_replace_node: of every run of
\* neighbours with the same destination and weight the first one is kept
\* the erase(std::unique(...)) step as it would be if it removed nothing
unique_edges_none(edges) == edges

RECURSIVE unique_edges(_)
unique_edges(edges) ==
    IF Len(edges) <= 1 THEN edges
    ELSE LET rest == unique_edges(Tail(edges))
         IN  IF Head(edges).to = Head(rest).to /\ Head(edges).weight = Head(rest).weight
             THEN <<Head(edges)>> \o Tail(rest)
             ELSE <<Head(edges)>> \o rest

\* vector::erase(position) as it would be if it erased up to the end
RemoveFrom(s, k) == SubSeq(s, 1, k - 1)

RemoveAt(s, k) == SubSeq(s, 1, k - 1) \o SubSeq(s, k + 1, Len(s))

\* ------------------------------------------------------------- accessors
is_node(adj, value) == value \in DOMAIN adj

empty(adj) == DOMAIN adj = {}

\* the predicate of find_edge as it would be if an unweighted edge matched any weight
find_edge_pred_unweighted_any(e, dst, weight) ==
    e.to = dst /\ ((is_weighted(e) /\ e.weight = weight) \/ ~is_weighted(e))

\* the predicate of find_edge
find_edge_pred(e, dst, weight) ==
    e.to = dst /\ ((is_weighted(e) /\ e.weight = weight) \/ (~is_weighted(e) /\ weight = nullopt))

\* find_edge(...) != edges.end()
edge_exists(edges, dst, weight) ==
    \E k \in 1..Len(edges) : find_edge_pred(edges[k], dst, weight)

\* ------------------------------------------------------------- modifiers
\* every modifier yields [adj |-> the adjacency list afterwards, ret |-> result]

\* insert_node as it would be if it emplaced an empty list over an existing node
insert_node_resets(adj, value) ==
    [adj |-> [n \in DOMAIN adj \cup {value} |-> IF n = value THEN <<>> ELSE adj[n]],
     ret |-> IF is_node(adj, value) THEN "false" ELSE "true"]

insert_node(adj, value) ==
    IF is_node(adj, value) THEN [adj |-> adj, ret |-> "false"]
    ELSE [adj |-> [n \in DOMAIN adj \cup {value} |-> IF n = value THEN <<>> ELSE adj[n]],
          ret |-> "true"]

\* insert_edge as it would be if it looked for dst only after adding the edge
\* the loop of graph(InputIt first, InputIt last): insert_node per value
RECURSIVE insert_range(_, _)
insert_range(adj, il) ==
    IF il = <<>> THEN adj
    ELSE insert_range(insert_node(adj, Head(il)).adj, Tail(il))

\* graph(InputIt first, InputIt last)
range_construct(il) == insert_range([n \in {} |-> <<>>], il)

\* graph(std::initializer_list<N> il) delegates to the range constructor
list_construct(il) == range_construct(il)

insert_edge_checks_late(adj, src, dst, weight) ==
    IF ~is_node(adj, src) THEN [adj |-> adj, ret |-> "runtime_error"]
    ELSE IF edge_exists(adj[src], dst, weight) THEN [adj |-> adj, ret |-> "false"]
    ELSE [adj |-> [adj EXCEPT ![src] = sort_edges(Append(@, create_edge(src, dst, weight)))],
          ret |-> IF is_node(adj, dst) THEN "true" ELSE "runtime_error"]

insert_edge(adj, src, dst, weight) ==
    IF ~is_node(adj, src) \/ ~is_node(adj, dst) THEN [adj |-> adj, ret |-> "runtime_error"]
    ELSE IF edge_exists(adj[src], dst, weight) THEN [adj |-> adj, ret |-> "false"]
    ELSE [adj |-> [adj EXCEPT ![src] = sort_edges(Append(@, create_edge(src, dst, weight)))],
          ret |-> "true"]

\* replace_incoming_edges as it would be if it rewrote from_ alone
rename_sources_only(edges, old_data, new_data) ==
    [k \in 1..Len(edges) |->
        [edges[k] EXCEPT !.from = IF @ = old_data THEN new_data ELSE @]]

\* replace_incoming_edges as it would be if it rewrote the source of the
\* edges that end at old_data
rename_ends_sets_source(edges, old_data, new_data) ==
    [k \in 1..Len(edges) |->
        [from   |-> IF edges[k].to = old_data THEN new_data ELSE edges[k].from,
         to     |-> IF edges[k].to = old_data THEN new_data ELSE edges[k].to,
         weight |-> edges[k].weight]]

\* one pass of replace_node's replace_incoming_edges over an edge list
rename_ends(edges, old_data, new_data) ==
    [k \in 1..Len(edges) |->
        [from   |-> IF edges[k].from = old_data THEN new_data ELSE edges[k].from,
         to     |-> IF edges[k].to = old_data THEN new_data ELSE edges[k].to,
         weight |-> edges[k].weight]]

\* replace_node's replace_outgoing_edges: a fresh edge from new_data per edge of old_data
copy_outgoing(edges, new_data) ==
    [k \in 1..Len(edges) |-> create_edge(new_data, edges[k].to, edges[k].weight)]

\* replace_node as it would be without the test for an existing new_data
replace_node_onto_existing(adj, old_data, new_data) ==
    IF ~is_node(adj, old_data) THEN [adj |-> adj, ret |-> "runtime_error"]
    ELSE LET a1 == [n \in DOMAIN adj \cup {new_data} |->
                       IF n = new_data THEN copy_outgoing(adj[old_data], new_data) ELSE adj[n]]
             a2 == [n \in DOMAIN a1 |-> rename_ends(a1[n], old_data, new_data)]
             a3 == [n \in DOMAIN a2 \ {old_data} |->
                       IF n = new_data THEN sort_edges(a2[n]) ELSE a2[n]]
         IN  [adj |-> a3, ret |-> "true"]

\* replace_node as it would be without adjacency_list_.erase(old_data)
replace_node_keeps_old(adj, old_data, new_data) ==
    IF ~is_node(adj, old_data) THEN [adj |-> adj, ret |-> "runtime_error"]
    ELSE IF is_node(adj, new_data) THEN [adj |-> adj, ret |-> "false"]
    ELSE LET a1 == [n \in DOMAIN adj \cup {new_data} |->
                       IF n = new_data THEN copy_outgoing(adj[old_data], new_data) ELSE adj[n]]
             a2 == [n \in DOMAIN a1 |-> rename_ends(a1[n], old_data, new_data)]
         IN  [adj |-> [n \in DOMAIN a2 |-> IF n = new_data THEN sort_edges(a2[n]) ELSE a2[n]],
              ret |-> "true"]

replace_node(adj, old_data, new_data) ==
    IF ~is_node(adj, old_data) THEN [adj |-> adj, ret |-> "runtime_error"]
    ELSE IF is_node(adj, new_data) THEN [adj |-> adj, ret |-> "false"]
    ELSE LET \* adjacency_list_[new_data] = edge_list(); replace_outgoing_edges
             a1 == [n \in DOMAIN adj \cup {new_data} |->
                       IF n = new_data THEN copy_outgoing(adj[old_data], new_data) ELSE adj[n]]
             \* replace_incoming_edges
             a2 == [n \in DOMAIN a1 |-> rename_ends(a1[n], old_data, new_data)]
             \* adjacency_list_.erase(old_data)
             a3 == [n \in DOMAIN a2 \ {old_data} |-> a2[n]]
         IN  [adj |-> [a3 EXCEPT ![new_data] = sort_edges(@)], ret |-> "true"]

\* merge_replace_node's first loop: the edges of old_data not yet in new_edges
RECURSIVE add_outgoing(_, _, _)
add_outgoing(old_edges, new_edges, new_data) ==
    IF old_edges = <<>> THEN new_edges
    ELSE LET e == Head(old_edges)
         IN  add_outgoing(Tail(old_edges),
                 IF edge_exists(new_edges, e.to, e.weight) THEN new_edges
                 ELSE Append(new_edges, create_edge(new_data, e.to, e.weight)),
                 new_data)

\* merge_replace_node's second loop over one edge list
retarget(edges, old_data, new_data) ==
    [k \in 1..Len(edges) |->
        IF edges[k].to = old_data THEN [edges[k] EXCEPT !.to = new_data] ELSE edges[k]]

merge_replace_node(adj, old_data, new_data) ==
    IF ~is_node(adj, old_data) \/ ~is_node(adj, new_data)
    THEN [adj |-> adj, ret |-> "runtime_error"]
    ELSE LET \* old_edges and new_edges are the same list when old_data = new_data;
             \* the loop then appends nothing, every edge finding itself
             a1 == [adj EXCEPT ![new_data] = add_outgoing(adj[old_data], @, new_data)]
             a2 == [n \in DOMAIN a1 |-> retarget(a1[n], old_data, new_data)]
             a3 == [a2 EXCEPT ![new_data] = unique_edges(sort_edges(@))]
         IN  [adj |-> [n \in DOMAIN a3 \ {old_data} |-> a3[n]], ret |-> "void"]

\* erase_node as it would be if it dropped the node's entry alone
erase_node_entry_only(adj, value) ==
    IF ~is_node(adj, value) THEN [adj |-> adj, ret |-> "false"]
    ELSE [adj |-> [n \in DOMAIN adj \ {value} |-> adj[n]], ret |-> "true"]

erase_node(adj, value) ==
    IF ~is_node(adj, value) THEN [adj |-> adj, ret |-> "false"]
    ELSE [adj |-> [n \in DOMAIN adj \ {value} |->
                      SelectSeq(adj[n], LAMBDA e : e.to # value)],
          ret |-> "true"]

\* the predicate handed to std::remove_if by erase_edge(src, dst, weight)
erase_edge_pred(e, dst, weight) ==
    e.to = dst /\ ((is_weighted(e) /\ e.weight = weight) \/ ~is_weighted(e))

erase_edge(adj, src, dst, weight) ==
    IF ~is_node(adj, src) \/ ~is_node(adj, dst) THEN [adj |-> adj, ret |-> "runtime_error"]
    ELSE LET kept == SelectSeq(adj[src], LAMBDA e : ~erase_edge_pred(e, dst, weight))
         IN  IF Len(kept) = Len(adj[src]) THEN [adj |-> adj, ret |-> "false"]
             ELSE [adj |-> [adj EXCEPT ![src] = kept], ret |-> "true"]

clear(adj) == [adj |-> [n \in {} |-> <<>>], ret |-> "void"]

\* -------------------------------------------------------------- iterator
\* graph::iterator is the pair (node_it_, edge_it_): node_it_ a key of the map
\* or node_end, edge_it_ the position in that node's edge list, begin() being 1
\* and end() being Len + 1.  No member function reads edge_it_ of an iterator
\* whose node_it_ is node_end except index(), so it is kept 0 there.
EndIt == [node_it |-> node_end, edge_it |-> 0]

\* adjacency_list_.begin()
first_key(adj) ==
    IF DOMAIN adj = {} THEN node_end
    ELSE CHOOSE n \in DOMAIN adj : \A m \in DOMAIN adj : n <= m

\* ++node_it_ as it would be if it went past every later node
next_key_past_all(adj, n) == node_end

\* ++node_it_
next_key(adj, n) ==
    LET later == {m \in DOMAIN adj : m > n}
    IN  IF later = {} THEN node_end ELSE CHOOSE m \in later : \A k \in later : m <= k

\* the loop shared by the constructor and operator++: while the edge list
\* of the current node is exhausted, move to the next node
RECURSIVE skip_exhausted(_, _)
skip_exhausted(adj, it) ==
    IF it.node_it = node_end THEN EndIt
    ELSE IF it.edge_it = Len(adj[it.node_it]) + 1
         THEN skip_exhausted(adj, [node_it |-> next_key(adj, it.node_it), edge_it |-> 1])
         ELSE it

\* iterator(node_it, node_end)
iterator(adj, node_it) ==
    IF node_it = node_end THEN EndIt
    ELSE skip_exhausted(adj, [node_it |-> node_it, edge_it |-> 1])

begin(adj) == iterator(adj, first_key(adj))

end(adj) == iterator(adj, node_end)

\* operator++
increment(adj, it) == skip_exhausted(adj, [it EXCEPT !.edge_it = @ + 1])

\* iterator::operator==
iterator_equal(a, b) ==
    a.node_it = b.node_it /\ (a.node_it = node_end \/ a.edge_it = b.edge_it)

\* operator*
dereference(adj, it) ==
    [from |-> it.node_it, to |-> adj[it.node_it][it.edge_it].to,
     weight |-> adj[it.node_it][it.edge_it].weight]

\* iterator::index() of an iterator that is not past the end.  The distance
\* is one of addresses inside the vector, which erase() does not reallocate,
\* so an iterator used after erase() still yields its old offset.
index(it) == it.edge_it - 1

\* index() of a past-the-end iterator reads node_it_->second of the map's
\* end position, which is no element: any value may come out.  The values
\* 0..MaxEdges cover every outcome of a comparison with a stored position.
GarbageIndex == 0..MaxEdges

\* the loop of erase_edge(iterator): step it forward k times, stopping at end()
RECURSIVE advance(_, _, _)
advance(adj, it, k) ==
    IF k > 0 /\ ~iterator_equal(it, end(adj)) THEN advance(adj, increment(adj, it), k - 1)
    ELSE it

\* erase_edge(iterator i): [adj |-> the graph afterwards, it |-> the iterator returned]
erase_edge_it(adj, i) ==
    IF iterator_equal(i, end(adj)) THEN [adj |-> adj, it |-> end(adj)]
    ELSE LET after == [adj EXCEPT ![i.node_it] = RemoveAt(@, i.edge_it)]
         IN  \* next == edges_from_src.end(): the erased edge was the last of its list
             IF i.edge_it = Len(adj[i.node_it]) THEN [adj |-> after, it |-> end(after)]
             ELSE [adj |-> after, it |-> advance(after, begin(after), index(i))]

\* the loop of erase_edge(iterator i, iterator s)
RECURSIVE erase_loop(_, _, _)
erase_loop(adj, i, s) ==
    IF ~iterator_equal(i, end(adj)) /\ ~iterator_equal(i, s)
    THEN LET r == erase_edge_it(adj, i)
         IN  erase_loop(r.adj, increment(r.adj, r.it), s)
    ELSE adj

\* erase_edge(iterator i, iterator s); i_index and s_index are what i.index()
\* and s.index() yield
erase_edge_range(adj, i, s, i_index, s_index) ==
    IF iterator_equal(i, s) /\ iterator_equal(i, end(adj))
    THEN [adj |-> adj, ret |-> "iterator", it |-> s]
    ELSE IF i_index > s_index THEN [adj |-> adj, ret |-> "runtime_error", it |-> EndIt]
    ELSE [adj |-> erase_loop(adj, i, s), ret |-> "iterator", it |-> s]

\* graph::edges: copies of the edges of src whose destination is dst, in
\* the order of src's list
edges(adj, src, dst) ==
    IF ~is_node(adj, src) \/ ~is_node(adj, dst) THEN [ret |-> "runtime_error", seq |-> <<>>]
    ELSE LET connected == SelectSeq(adj[src], LAMBDA e : e.to = dst)
         IN  [ret |-> "vector",
              seq |-> [k \in 1..Len(connected) |->
                          create_edge(connected[k].from, connected[k].to, connected[k].weight)]]

\* is_connected as it would be if it raised only when both nodes are absent
is_connected_both_absent(adj, src, dst) ==
    IF ~is_node(adj, src) /\ ~is_node(adj, dst) THEN "runtime_error"
    ELSE IF edges(adj, src, dst).seq # <<>> THEN "true" ELSE "false"

\* graph::is_connected
is_connected(adj, src, dst) ==
    IF ~is_node(adj, src) \/ ~is_node(adj, dst) THEN "runtime_error"
    ELSE IF edges(adj, src, dst).seq # <<>> THEN "true" ELSE "false"

\* graph::nodes: the keys of the map in its order, ascending
RECURSIVE keys_from(_, _)
keys_from(adj, n) ==
    IF n > MaxNode THEN <<>>
    ELSE (IF n \in DOMAIN adj THEN <<n>> ELSE <<>>) \o keys_from(adj, n + 1)

nodes(adj) == keys_from(adj, 1)

\* graph::connections: the destination of every edge of src's list, in its order
connections(adj, src) ==
    IF ~is_node(adj, src) THEN [ret |-> "runtime_error", seq |-> <<>>]
    ELSE [ret |-> "vector", seq |-> [k \in 1..Len(adj[src]) |-> adj[src][k].to]]

\* One line of operator<<, its text kept as its parts: kind "node" is
\* "<node> (", kind "edge" is two spaces and print_edge(), which is
\* "<from> -> <to> | U" or "<from> -> <to> | W | <weight>", kind "close" is ")".
node_line(node) == [kind |-> "node", from |-> node, to |-> node, tag |-> "(", weight |-> nullopt]

\* weighted_edge::print_edge and unweighted_edge::print_edge
print_edge(e) ==
    IF is_weighted(e)
    THEN [kind |-> "edge", from |-> e.from, to |-> e.to, tag |-> "W", weight |-> e.weight]
    ELSE [kind |-> "edge", from |-> e.from, to |-> e.to, tag |-> "U", weight |-> nullopt]

close_line == [kind |-> "close", from |-> node_end, to |-> node_end, tag |-> ")", weight |-> nullopt]

\* the outer loop of operator<< from map position n on
RECURSIVE dump_from(_, _)
dump_from(adj, n) ==
    IF n = node_end THEN <<>>
    ELSE <<node_line(n)>>
         \o [k \in 1..Len(adj[n]) |-> print_edge(adj[n][k])]
         \o <<close_line>>
         \o dump_from(adj, next_key(adj, n))

\* operator<<(std::ostream&, graph const&): the lines written
dump(adj) == dump_from(adj, first_key(adj))

\* --node_it_: from node_end to the last key, from a key to the key before
\* it.  Decrementing the first key is undefined; operator-- gets there only
\* when no edge precedes the iterator, where it must not be called.
prev_key(adj, n) ==
    LET earlier == IF n = node_end THEN DOMAIN adj ELSE {m \in DOMAIN adj : m < n}
    IN  IF earlier = {} THEN node_end ELSE CHOOSE m \in earlier : \A k \in earlier : m >= k

\* the loop of operator-- as it would be with "if" in place of "while"
step_back_once(adj, it) ==
    IF it.node_it = node_end \/ it.edge_it = 1
    THEN LET n == prev_key(adj, it.node_it)
         IN  [node_it |-> n, edge_it |-> Len(adj[n]) + 1]
    ELSE it

\* the loop of operator--: while the iterator is past the end or at the
\* front of its list, move to the end of the list of the node before
RECURSIVE step_back(_, _)
step_back(adj, it) ==
    IF it.node_it = node_end \/ it.edge_it = 1
    THEN LET n == prev_key(adj, it.node_it)
         IN  step_back(adj, [node_it |-> n, edge_it |-> Len(adj[n]) + 1])
    ELSE it

\* operator--
decrement(adj, it) ==
    LET at == step_back(adj, it) IN [at EXCEPT !.edge_it = @ - 1]

\* graph::find
find(adj, src, dst, weight) ==
    IF ~is_node(adj, src) \/ ~is_node(adj, dst) THEN end(adj)
    ELSE LET hits == {k \in 1..Len(adj[src]) :
                         adj[src][k].to = dst /\ adj[src][k].weight = weight}
         IN  IF hits = {} THEN end(adj)
             ELSE [iterator(adj, src) EXCEPT
                      !.edge_it = CHOOSE k \in hits : \A j \in hits : k <= j]

\* for (it = begin(); it != end(); ++it): every position the loop rests on,
\* with the value operator* yields there
RECURSIVE traverse(_, _)
traverse(adj, it) ==
    IF iterator_equal(it, end(adj)) THEN <<>>
    ELSE <<[at |-> it, edge |-> dereference(adj, it)]>> \o traverse(adj, increment(adj, it))

\* the loop of operator== and its return statement
RECURSIVE equal_loop(_, _, _, _)
equal_loop(a, it1, b, it2) ==
    IF ~iterator_equal(it1, end(a)) /\ ~iterator_equal(it2, end(b))
    THEN LET edge1 == dereference(a, it1)
             edge2 == dereference(b, it2)
         IN  IF edge1.from # edge2.from \/ edge1.to # edge2.to \/ edge1.weight # edge2.weight
             THEN FALSE
             ELSE equal_loop(a, increment(a, it1), b, increment(b, it2))
    ELSE iterator_equal(it1, end(a)) /\ iterator_equal(it2, end(b))

\* graph::operator==
graph_equal(a, b) ==
    IF Cardinality(DOMAIN a) # Cardinality(DOMAIN b) THEN FALSE
    ELSE equal_loop(a, begin(a), b, begin(b))

\* ------------------------------------------------------------------ state
NumEdges(adj) ==
    LET RECURSIVE Sum(_)
        Sum(S) == IF S = {} THEN 0
                  ELSE LET n == CHOOSE x \in S : TRUE IN Len(adj[n]) + Sum(S \ {n})
    IN  Sum(DOMAIN adj)

\* graph() = default
EmptyGraph == [n \in {} |-> <<>>]

NoArgs == [x |-> 0, y |-> 0, w |-> 0]

\* the iterator a caller holds after stepping begin() forward p times
IteratorAt(adj, p) == advance(adj, begin(adj), p)

NothingInserted == [nodes |-> {}, edges |-> {}]

Init ==
    /\ adjacency_list_ = EmptyGraph
    /\ other = EmptyGraph
    /\ pre = EmptyGraph
    /\ op = "none"
    /\ args = NoArgs
    /\ ret = "void"
    /\ ret_it = EndIt
    /\ ret_seq = <<>>
    /\ inserted = [this |-> NothingInserted, other |-> NothingInserted]

\* a call on the graph under test whose outcome is r.  Every call is made
\* with op = "none": the record of the call before it has been dropped.
Call(name, a, r) ==
    /\ pre' = adjacency_list_
    /\ adjacency_list_' = r.adj
    /\ op' = name
    /\ args' = a
    /\ ret' = r.ret
    /\ ret_it' = r.it
    /\ ret_seq' = <<>>
    /\ UNCHANGED <<other, inserted>>

\* the outcome of a member function that returns no iterator
NoIt(r) == [adj |-> r.adj, ret |-> r.ret, it |-> EndIt]

InsertNode ==
    /\ op = "none"
    /\ \E v \in Node :
          \E r \in {NoIt(insert_node(adjacency_list_, v))} :
              Call("insert_node", [x |-> v, y |-> 0, w |-> 0], r)

InsertEdge ==
    /\ op = "none"
    /\ NumEdges(adjacency_list_) < MaxEdges
    /\ \E src \in Node, dst \in Node, weight \in OptWeight :
          \E r \in {NoIt(insert_edge(adjacency_list_, src, dst, weight))} :
              Call("insert_edge", [x |-> src, y |-> dst, w |-> weight], r)

ReplaceNode ==
    /\ op = "none"
    /\ \E old_data \in Node, new_data \in Node :
          \E r \in {NoIt(replace_node(adjacency_list_, old_data, new_data))} :
              Call("replace_node", [x |-> old_data, y |-> new_data, w |-> 0], r)

MergeReplaceNode ==
    /\ op = "none"
    /\ \E old_data \in Node, new_data \in Node :
          \E r \in {NoIt(merge_replace_node(adjacency_list_, old_data, new_data))} :
              Call("merge_replace_node", [x |-> old_data, y |-> new_data, w |-> 0], r)

EraseNode ==
    /\ op = "none"
    /\ \E v \in Node :
          \E r \in {NoIt(erase_node(adjacency_list_, v))} :
              Call("erase_node", [x |-> v, y |-> 0, w |-> 0], r)

EraseEdge ==
    /\ op = "none"
    /\ \E src \in Node, dst \in Node, weight \in OptWeight :
          \E r \in {NoIt(erase_edge(adjacency_list_, src, dst, weight))} :
              Call("erase_edge", [x |-> src, y |-> dst, w |-> weight], r)

\* erase_edge(i) for the iterator i reached from begin() by p increments
EraseEdgeIt ==
    /\ op = "none"
    /\ \E p \in 0..NumEdges(adjacency_list_) :
          \E r \in {erase_edge_it(adjacency_list_, IteratorAt(adjacency_list_, p))} :
              Call("erase_edge_it", [x |-> p, y |-> 0, w |-> 0],
                   [adj |-> r.adj, ret |-> "iterator", it |-> r.it])

\* erase_edge(i, s) for the iterators reached from begin() by p and q
\* increments; g is what index() yields for the one of them that is end()
EraseEdgeRange ==
    /\ op = "none"
    /\ \E p \in 0..NumEdges(adjacency_list_), q \in 0..NumEdges(adjacency_list_) :
          \E i \in {IteratorAt(adjacency_list_, p)}, s \in {IteratorAt(adjacency_list_, q)} :
              \E g \in IF (i.node_it = node_end) # (s.node_it = node_end)
                        THEN GarbageIndex ELSE {0} :
                  \E r \in {erase_edge_range(adjacency_list_, i, s,
                                 IF i.node_it = node_end THEN g ELSE index(i),
                                 IF s.node_it = node_end THEN g ELSE index(s))} :
                      Call("erase_edge_range", [x |-> p, y |-> q, w |-> 0], r)

\* the lists of values a constructor is given
NodeLists == UNION {[1..n -> Node] : n \in 0..MaxList}

\* g = graph{il}: the graph under test is replaced by one constructed from
\* the list il, which ret_seq keeps
Construct ==
    /\ op = "none"
    /\ \E il \in NodeLists :
          /\ adjacency_list_' = list_construct(il)
          /\ ret_seq' = il
    /\ pre' = adjacency_list_
    /\ op' = "construct"
    /\ args' = NoArgs
    /\ ret' = "void"
    /\ ret_it' = EndIt
    /\ UNCHANGED <<other, inserted>>

\* a call of a const member function: the graph stays as it is
Query(name, a, result, it, seq) ==
    /\ pre' = adjacency_list_
    /\ op' = name
    /\ args' = a
    /\ ret' = result
    /\ ret_it' = it
    /\ ret_seq' = seq
    /\ UNCHANGED <<adjacency_list_, other, inserted>>

IsNode ==
    /\ op = "none"
    /\ \E v \in Node :
          Query("is_node", [x |-> v, y |-> 0, w |-> 0],
                IF is_node(adjacency_list_, v) THEN "true" ELSE "false", EndIt, <<>>)

Nodes ==
    /\ op = "none"
    /\ Query("nodes", NoArgs, "vector", EndIt, nodes(adjacency_list_))

IsConnected ==
    /\ op = "none"
    /\ \E src \in Node, dst \in Node :
          Query("is_connected", [x |-> src, y |-> dst, w |-> 0],
                is_connected(adjacency_list_, src, dst), EndIt, <<>>)

Edges ==
    /\ op = "none"
    /\ \E src \in Node, dst \in Node :
          \E r \in {edges(adjacency_list_, src, dst)} :
              Query("edges", [x |-> src, y |-> dst, w |-> 0], r.ret, EndIt, r.seq)

Connections ==
    /\ op = "none"
    /\ \E src \in Node :
          \E r \in {connections(adjacency_list_, src)} :
              Query("connections", [x |-> src, y |-> 0, w |-> 0], r.ret, EndIt, r.seq)

Find ==
    /\ op = "none"
    /\ \E src \in Node, dst \in Node, weight \in OptWeight :
          Query("find", [x |-> src, y |-> dst, w |-> weight], "iterator",
                find(adjacency_list_, src, dst, weight), <<>>)

\* os << g
Dump ==
    /\ op = "none"
    /\ Query("operator<<", NoArgs, "void", EndIt, dump(adjacency_list_))

\* the loop from begin() to end()
Traverse ==
    /\ op = "none"
    /\ Query("traverse", NoArgs, "void", begin(adjacency_list_),
             traverse(adjacency_list_, begin(adjacency_list_)))

\* --p for the iterator p reached from begin() by x >= 1 increments (end()
\* included); ret_seq holds ++(--p) and, for q the iterator before p, --(++q)
Decrement ==
    /\ op = "none"
    /\ \E x \in 1..NumEdges(adjacency_list_) :
          \E p \in {IteratorAt(adjacency_list_, x)}, q \in {IteratorAt(adjacency_list_, x - 1)} :
              \E d \in {decrement(adjacency_list_, p)} :
                  Query("decrement", [x |-> x, y |-> 0, w |-> 0], "iterator", d,
                        <<increment(adjacency_list_, d),
                          decrement(adjacency_list_, increment(adjacency_list_, q))>>)

Clear ==
    /\ op = "none"
    /\ \E r \in {NoIt(clear(adjacency_list_))} : Call("clear", NoArgs, r)

\* the caller is done with the result of the last call: its record is
\* dropped, the graph stays as the call left it
Discard ==
    /\ op # "none"
    /\ op' = "none"
    /\ args' = NoArgs
    /\ ret' = "void"
    /\ ret_it' = EndIt
    /\ ret_seq' = <<>>
    /\ pre' = adjacency_list_
    /\ UNCHANGED <<adjacency_list_, other, inserted>>

Next ==
    \/ Discard
    \/ InsertNode
    \/ InsertEdge
    \/ ReplaceNode
    \/ MergeReplaceNode
    \/ EraseNode
    \/ EraseEdge
    \/ EraseEdgeIt
    \/ EraseEdgeRange
    \/ Clear
    \/ IsNode
    \/ Nodes
    \/ IsConnected
    \/ Edges
    \/ Connections
    \/ Find
    \/ Traverse
    \/ Decrement
    \/ Construct
    \/ Dump

Spec == Init /\ [][Next]_vars

\* ------------------------------------------------- two graphs, operator==
\* Both graphs are built by insert_node and insert_edge, each holding at
\* most MaxEqEdges edges, and are then compared.
ThisInsertNode ==
    /\ op = "none"
    /\ \E v \in Node :
          /\ adjacency_list_' = insert_node(adjacency_list_, v).adj
          /\ inserted' = [inserted EXCEPT !.this.nodes = @ \cup {v}]
    /\ pre' = adjacency_list_'
    /\ UNCHANGED <<other, op, args, ret, ret_it, ret_seq>>

ThisInsertEdge ==
    /\ op = "none"
    /\ NumEdges(adjacency_list_) < MaxEqEdges
    /\ \E src \in DOMAIN adjacency_list_, dst \in DOMAIN adjacency_list_, weight \in OptWeight :
          /\ adjacency_list_' = insert_edge(adjacency_list_, src, dst, weight).adj
          /\ inserted' = [inserted EXCEPT !.this.edges = @ \cup {<<src, dst, weight>>}]
    /\ pre' = adjacency_list_'
    /\ UNCHANGED <<other, op, args, ret, ret_it, ret_seq>>

OtherInsertNode ==
    /\ op = "none"
    /\ \E v \in Node :
          /\ other' = insert_node(other, v).adj
          /\ inserted' = [inserted EXCEPT !.other.nodes = @ \cup {v}]
    /\ UNCHANGED <<adjacency_list_, pre, op, args, ret, ret_it, ret_seq>>

OtherInsertEdge ==
    /\ op = "none"
    /\ NumEdges(other) < MaxEqEdges
    /\ \E src \in DOMAIN other, dst \in DOMAIN other, weight \in OptWeight :
          /\ other' = insert_edge(other, src, dst, weight).adj
          /\ inserted' = [inserted EXCEPT !.other.edges = @ \cup {<<src, dst, weight>>}]
    /\ UNCHANGED <<adjacency_list_, pre, op, args, ret, ret_it, ret_seq>>

\* *this == other
Equals ==
    /\ op = "none"
    /\ op' = "operator=="
    /\ ret' = IF graph_equal(adjacency_list_, other) THEN "true" ELSE "false"
    /\ UNCHANGED <<adjacency_list_, other, pre, args, ret_it, ret_seq, inserted>>

NextEq ==
    \/ Discard
    \/ ThisInsertNode
    \/ ThisInsertEdge
    \/ OtherInsertNode
    \/ OtherInsertEdge
    \/ Equals

SpecEq == Init /\ [][NextEq]_vars
\* ------------------------------------------------------- copying, moving
\* the inner loop of the copy constructor as it would be if it made every
\* copied edge an unweighted_edge
copy_edge_list_unweighted(edges_list) ==
    [k \in 1..Len(edges_list) |-> create_edge(edges_list[k].from, edges_list[k].to, nullopt)]

\* the inner loop of the copy constructor and of copy assignment: a new edge
\* object per edge, weighted or unweighted as the original
copy_edge_list(edges_list) ==
    [k \in 1..Len(edges_list) |->
        IF is_weighted(edges_list[k])
        THEN create_edge(edges_list[k].from, edges_list[k].to, edges_list[k].weight)
        ELSE create_edge(edges_list[k].from, edges_list[k].to, nullopt)]

\* graph(graph const& other): the adjacency list of the new graph
copy_construct(other_adj) ==
    [n \in DOMAIN other_adj |-> copy_edge_list(other_adj[n])]

\* operator=(graph const& other); same_object is this == &other
copy_assign(adj, other_adj, same_object) ==
    IF same_object THEN adj
    ELSE LET cleared == clear(adj).adj
         IN  [n \in DOMAIN cleared \cup DOMAIN other_adj |->
                 IF n \in DOMAIN other_adj THEN copy_edge_list(other_adj[n]) ELSE cleared[n]]

\* the move constructor as it would be without other.adjacency_list_.clear(),
\* the moved-from map keeping its elements
move_construct_keeps(other_adj) == [adj |-> other_adj, from |-> other_adj]

\* graph(graph&& other): adj is the new graph, from is other afterwards.
\* Whatever std::move leaves in other.adjacency_list_, clear() empties it.
move_construct(other_adj) == [adj |-> other_adj, from |-> clear(other_adj).adj]

\* operator=(graph&& other); same_object is this == &other
move_assign(adj, other_adj, same_object) ==
    IF same_object THEN [adj |-> adj, from |-> adj]
    ELSE [adj |-> other_adj, from |-> clear(other_adj).adj]

\* the graphs one mutating call makes of adj (a call that throws leaves adj)
Mutated(adj) ==
    {insert_node(adj, v).adj : v \in Node}
    \cup (IF NumEdges(adj) < MaxEdges
          THEN {insert_edge(adj, src, dst, weight).adj :
                   src \in Node, dst \in Node, weight \in OptWeight}
          ELSE {})
    \cup {replace_node(adj, old_data, new_data).adj : old_data \in Node, new_data \in Node}
    \cup {merge_replace_node(adj, old_data, new_data).adj : old_data \in Node, new_data \in Node}
    \cup {erase_node(adj, v).adj : v \in Node}
    \cup {erase_edge(adj, src, dst, weight).adj :
             src \in Node, dst \in Node, weight \in OptWeight}
    \cup {erase_edge_it(adj, IteratorAt(adj, p)).adj : p \in 0..NumEdges(adj)}
    \cup {clear(adj).adj}

\* SpecCopy: g1 is adjacency_list_, built by any mutating calls; g2 is other,
\* which exists from its construction off g1 until it is destroyed.  While
\* g2 exists one of the two graphs is mutated once, and g2 may then be
\* assigned from g1 again.  pre is the graph a call reads or leaves alone,
\* as it was before the call.
Build ==
    /\ op = "none"
    /\ adjacency_list_' \in Mutated(adjacency_list_)
    /\ pre' = adjacency_list_'
    /\ UNCHANGED <<other, op, args, ret, ret_it, ret_seq, inserted>>

\* a call between the two graphs, g2 being other afterwards and g1 adjacency_list_
Between(name, g1, g2) ==
    /\ pre' = adjacency_list_
    /\ adjacency_list_' = g1
    /\ other' = g2
    /\ op' = name
    /\ UNCHANGED <<args, ret, ret_it, ret_seq, inserted>>

\* graph g2{g1}
CopyConstruct ==
    /\ op = "none"
    /\ Between("copy_construct", adjacency_list_, copy_construct(adjacency_list_))

\* g2 = g1, g2 holding what the mutation left
CopyAssign ==
    /\ op \in {"mutate_copy", "mutate_source"}
    /\ Between("copy_assign", adjacency_list_, copy_assign(other, adjacency_list_, FALSE))

\* g1 = g1
CopyAssignSelf ==
    /\ op = "none"
    /\ Between("copy_assign_self",
               copy_assign(adjacency_list_, adjacency_list_, TRUE), other)

\* graph g2{std::move(g1)}
MoveConstruct ==
    /\ op = "none"
    /\ \E r \in {move_construct(adjacency_list_)} : Between("move_construct", r.from, r.adj)

\* g2 = std::move(g1), g2 holding what the mutation left
MoveAssign ==
    /\ op \in {"mutate_copy", "mutate_source"}
    /\ \E r \in {move_assign(other, adjacency_list_, FALSE)} :
          Between("move_assign", r.from, r.adj)

\* g1 = std::move(g1)
MoveAssignSelf ==
    /\ op = "none"
    /\ \E r \in {move_assign(adjacency_list_, adjacency_list_, TRUE)} :
          Between("move_assign_self", r.adj, other)

\* a mutating call on g2 after it was copied from g1
MutateCopy ==
    /\ op \in {"copy_construct", "copy_assign"}
    /\ other' \in Mutated(other)
    /\ pre' = adjacency_list_
    /\ op' = "mutate_copy"
    /\ UNCHANGED <<adjacency_list_, args, ret, ret_it, ret_seq, inserted>>

\* a mutating call on g1 after g2 was copied from it
MutateSource ==
    /\ op \in {"copy_construct", "copy_assign"}
    /\ adjacency_list_' \in Mutated(adjacency_list_)
    /\ pre' = other
    /\ op' = "mutate_source"
    /\ UNCHANGED <<other, args, ret, ret_it, ret_seq, inserted>>

\* An iterator as an object of the program: g names the graph object into
\* whose map node_it_ points ("none" for iterator(), whose members are
\* value-initialized), pos is the number of ++ steps from begin() that made it.
IteratorsOf(g, adj) ==
    {[g |-> g, pos |-> p,
      node_it |-> IteratorAt(adj, p).node_it, edge_it |-> IteratorAt(adj, p).edge_it] :
        p \in 0..NumEdges(adj)}

\* iterator()
DefaultIterator == [g |-> "none", pos |-> 0, node_it |-> node_end, edge_it |-> 0]

\* node_it_ == other.node_it_ as it would be if positions of two maps with
\* the same key compared equal
map_iterator_equal_by_key(a, b) == a.node_it = b.node_it

\* node_it_ == other.node_it_ of std::map: the same element, or the end
\* position, of the same map; two value-initialized iterators are equal.
\* The standard leaves the comparison of positions of two maps undefined;
\* the library compares the addresses of tree nodes, which differ.
map_iterator_equal(a, b) == a.g = b.g /\ a.node_it = b.node_it

\* iterator::operator== on any two iterator objects
iterator_object_equal(a, b) ==
    map_iterator_equal(a, b) /\ (a.node_it = node_end \/ a.edge_it = b.edge_it)

\* a == b for two iterators taken from g1, from its copy g2, or default-constructed
CompareIterators ==
    /\ op = "copy_construct"
    /\ \E a, b \in IteratorsOf("g1", adjacency_list_) \cup IteratorsOf("g2", other)
                        \cup {DefaultIterator} :
          /\ ret_seq' = <<a, b>>
          /\ ret' = IF iterator_object_equal(a, b) THEN "true" ELSE "false"
    /\ op' = "iterator=="
    /\ UNCHANGED <<adjacency_list_, other, pre, args, ret_it, inserted>>

\* g2 goes out of scope
Destroy ==
    /\ op # "none"
    /\ op' = "none"
    /\ other' = EmptyGraph
    /\ pre' = adjacency_list_
    /\ ret' = "void"
    /\ ret_seq' = <<>>
    /\ UNCHANGED <<adjacency_list_, args, ret_it, inserted>>

NextCopy ==
    \/ Build
    \/ CopyConstruct
    \/ CopyAssign
    \/ CopyAssignSelf
    \/ MoveConstruct
    \/ MoveAssign
    \/ MoveAssignSelf
    \/ MutateCopy
    \/ MutateSource
    \/ CompareIterators
    \/ Destroy

SpecCopy == Init /\ [][NextCopy]_vars

\* ---------------------------------------------- replace_node there and back
\* A graph is built by insert_node and insert_edge alone; then
\* replace_node(a, b) is called and, on its result, replace_node(b, a).
\* pre keeps the graph as it was before the first of the two calls, ret_seq
\* the results of both.

\* the record of an insert call is dropped and the next call follows
DiscardInsert ==
    /\ op \in {"insert_node", "insert_edge"}
    /\ Discard

\* g.replace_node(a, b)
ReplaceThere ==
    /\ op = "none"
    /\ \E a \in Node, b \in Node :
          \E r \in {replace_node(adjacency_list_, a, b)} :
              /\ adjacency_list_' = r.adj
              /\ args' = [x |-> a, y |-> b, w |-> 0]
              /\ ret' = r.ret
    /\ pre' = adjacency_list_
    /\ op' = "replace_there"
    /\ ret_seq' = <<>>
    /\ UNCHANGED <<other, ret_it, inserted>>

\* g.replace_node(b, a), the arguments of the call before exchanged
ReplaceBack ==
    /\ op = "replace_there"
    /\ \E r \in {replace_node(adjacency_list_, args.y, args.x)} :
          /\ adjacency_list_' = r.adj
          /\ ret' = r.ret
          /\ ret_seq' = <<ret, r.ret>>
    /\ op' = "replace_back"
    /\ UNCHANGED <<other, pre, args, ret_it, inserted>>

\* the graph goes out of scope and a new one is default-constructed
Rebuild ==
    /\ op = "replace_back"
    /\ adjacency_list_' = EmptyGraph
    /\ pre' = EmptyGraph
    /\ op' = "none"
    /\ args' = NoArgs
    /\ ret' = "void"
    /\ ret_seq' = <<>>
    /\ UNCHANGED <<other, ret_it, inserted>>

NextReplace ==
    \/ InsertNode
    \/ InsertEdge
    \/ DiscardInsert
    \/ ReplaceThere
    \/ ReplaceBack
    \/ Rebuild

SpecReplace == Init /\ [][NextReplace]_vars

\* ------------------------------------------------------------ properties
\* What the properties below speak about: the stored edges as the triples
\* (source node, destination, weight), per node and flattened.

Triple == [src : Node, to : Node, weight : OptWeight]

\* the edge list of node n as triples, the source being the map key
TriplesOf(adj, n) ==
    [k \in 1..Len(adj[n]) |-> [src |-> n, to |-> adj[n][k].to, weight |-> adj[n][k].weight]]

\* all edges in flattened order: source nodes ascending, each list in its order
RECURSIVE FlatFrom(_, _)
FlatFrom(adj, n) ==
    IF n > MaxNode THEN <<>>
    ELSE (IF n \in DOMAIN adj THEN TriplesOf(adj, n) ELSE <<>>) \o FlatFrom(adj, n + 1)

Flat(adj) == FlatFrom(adj, 1)

\* how often the triple t is stored
Count(adj, t) ==
    IF t.src \in DOMAIN adj
    THEN Cardinality({k \in 1..Len(adj[t.src]) :
             adj[t.src][k].to = t.to /\ adj[t.src][k].weight = t.weight})
    ELSE 0

\* the triple t with node old_data renamed to new_data
Renamed(t, old_data, new_data) ==
    [src    |-> IF t.src = old_data THEN new_data ELSE t.src,
     to     |-> IF t.to = old_data THEN new_data ELSE t.to,
     weight |-> t.weight]

\* a precedes-or-equals b in canonical order
CanonicalLeq(a, b) ==
    \/ a.to < b.to
    \/ /\ a.to = b.to
       /\ \/ a.weight = nullopt
          \/ b.weight # nullopt /\ a.weight <= b.weight

\* the iterator it denotes the edge at flattened position p (counted from 0)
Denotes(adj, it, p) ==
    /\ it.node_it \in DOMAIN adj
    /\ it.edge_it \in 1..Len(adj[it.node_it])
    /\ p = Len(FlatFrom([n \in {m \in DOMAIN adj : m < it.node_it} |-> adj[n]], 1))
           + it.edge_it - 1

\* the sequence s without its positions lo+1 .. hi (counted from 1)
Without(s, lo, hi) == SubSeq(s, 1, lo) \o SubSeq(s, hi + 1, Len(s))

\* the calls the claims are about
MergedDistinct ==
    /\ op = "merge_replace_node"
    /\ args.x # args.y
    /\ args.x \in DOMAIN pre
    /\ args.y \in DOMAIN pre

ErasedByValue ==
    /\ op = "erase_edge"
    /\ args.x \in DOMAIN pre
    /\ args.y \in DOMAIN pre

Replaced ==
    /\ op = "replace_node"
    /\ args.x \in DOMAIN pre
    /\ args.y \notin DOMAIN pre

\* every stored edge's from_ is the key of the list that holds it: what makes
\* the outcome of sort_edges independent of the sorting algorithm
EdgesCarryTheirKey ==
    \A n \in DOMAIN adjacency_list_ :
        \A k \in 1..Len(adjacency_list_[n]) : adjacency_list_[n][k].from = n

\* C1: after any sequence of mutating calls the outgoing edge list of every
\* node is in canonical order: destination ascending, for equal destinations
\* the unweighted edge first, then the weighted edges by weight ascending.
C1_CanonicalOrder ==
    \A n \in DOMAIN adjacency_list_ :
        \A k \in 1..(Len(adjacency_list_[n]) - 1) :
            CanonicalLeq(adjacency_list_[n][k], adjacency_list_[n][k + 1])

\* C2: after any sequence of mutating calls no outgoing edge list holds two
\* edges with the same destination and the same weight-signature.
C2_NoDuplicateEdges ==
    \A n \in DOMAIN adjacency_list_ :
        \A j, k \in 1..Len(adjacency_list_[n]) :
            (j # k) => \/ adjacency_list_[n][j].to # adjacency_list_[n][k].to
                       \/ adjacency_list_[n][j].weight # adjacency_list_[n][k].weight

\* C3: after merge_replace_node(old, new) on two distinct nodes the node set
\* is the previous one without old, and the stored edges are the previous
\* edges with old renamed to new as source and as destination, each distinct
\* (source, destination, weight) exactly once.
C3_MergeRenamesAndDedups ==
    MergedDistinct =>
        /\ DOMAIN adjacency_list_ = DOMAIN pre \ {args.x}
        /\ \A t \in Triple :
              Count(adjacency_list_, t) =
                  IF \E u \in Triple : Count(pre, u) > 0 /\ Renamed(u, args.x, args.y) = t
                  THEN 1 ELSE 0

\* C4: erase_edge(i) on an iterator that denotes a stored edge returns an
\* iterator denoting the edge that followed i in flattened order, whatever
\* source node that edge or i belongs to, and end() only when i denoted the
\* last edge of the whole graph.
C4_EraseReturnsNext ==
    (op = "erase_edge_it" /\ args.x < NumEdges(pre)) =>
        IF args.x = NumEdges(pre) - 1
        THEN ret_it.node_it = node_end
        ELSE Denotes(adjacency_list_, ret_it, args.x)

\* C5: erase_edge(i, j) with i at or before j removes exactly the edges at
\* the flattened positions [i, j) and leaves all nodes in place.  (Stated of
\* the calls that return; the calls that raise are C10's.)
C5_EraseRangeExact ==
    (op = "erase_edge_range" /\ args.x <= args.y /\ ret = "iterator") =>
        /\ DOMAIN adjacency_list_ = DOMAIN pre
        /\ Flat(adjacency_list_) = Without(Flat(pre), args.x, args.y)

\* C6: erase_edge(src, dst, weight) on existing nodes removes at most one
\* edge, the edge src -> dst with exactly the given weight-signature, and
\* leaves every other edge and every node unchanged.
C6_EraseByValueFrame ==
    ErasedByValue =>
        /\ DOMAIN adjacency_list_ = DOMAIN pre
        /\ \A n \in DOMAIN pre \ {args.x} : adjacency_list_[n] = pre[n]
        /\ \/ adjacency_list_[args.x] = pre[args.x]
           \/ \E k \in 1..Len(pre[args.x]) :
                 /\ pre[args.x][k].to = args.y
                 /\ pre[args.x][k].weight = args.w
                 /\ adjacency_list_[args.x] = RemoveAt(pre[args.x], k)

\* C7: erase_edge(src, dst, weight) on existing nodes returns true exactly
\* when src's list held an edge to dst with exactly the given weight-signature.
C7_EraseByValueResult ==
    ErasedByValue =>
        ((ret = "true") <=>
            \E k \in 1..Len(pre[args.x]) :
                pre[args.x][k].to = args.y /\ pre[args.x][k].weight = args.w)

\* C8: g1 == g2 is true exactly when the two graphs have the same node set
\* (nodes without edges included) and the same edge sequence for every node.
C8_EqualityIffSame ==
    (op = "operator==") =>
        ((ret = "true") <=>
            /\ DOMAIN adjacency_list_ = DOMAIN other
            /\ \A n \in DOMAIN adjacency_list_ :
                  TriplesOf(adjacency_list_, n) = TriplesOf(other, n))

\* C9: replace_node(old, new) with old a node and new not a node returns
\* true; the node set is the previous one with old replaced by new and the
\* multiset of edges is the previous one with old renamed to new as source
\* and as destination, nothing dropped and nothing merged.
C9_ReplaceRenames ==
    Replaced =>
        /\ ret = "true"
        /\ DOMAIN adjacency_list_ = (DOMAIN pre \ {args.x}) \cup {args.y}
        /\ NumEdges(adjacency_list_) = NumEdges(pre)
        /\ \A t \in Triple :
              Count(adjacency_list_, t) =
                  LET sources == {u \in Triple : Renamed(u, args.x, args.y) = t}
                      RECURSIVE Sum(_)
                      Sum(S) == IF S = {} THEN 0
                                ELSE LET u == CHOOSE v \in S : TRUE
                                     IN  Count(pre, u) + Sum(S \ {u})
                  IN  Sum(sources)

\* a replace_node that renamed a self-loop and an incoming edge
C9_Witness ==
    /\ Replaced
    /\ ret = "true"
    /\ \E k \in 1..Len(pre[args.x]) : pre[args.x][k].to = args.x
    /\ \E n \in DOMAIN pre \ {args.x} :
          \E k \in 1..Len(pre[n]) : pre[n][k].to = args.x

\* C10: erase_edge(i, j) raises exactly when i lies strictly after j in the
\* flattened order of the whole graph, also when i and j lie in the edge
\* lists of different source nodes.  (Stated of the iterators that denote
\* stored edges: what index() yields for end() is anything.)
C10_InvalidRangeIffAfter ==
    (op = "erase_edge_range" /\ args.x < NumEdges(pre) /\ args.y < NumEdges(pre)) =>
        ((ret = "runtime_error") <=> (args.x > args.y))
\* C11: a call that ends in an error (std::runtime_error, thrown for an absent
\* node or for an invalid iterator range) leaves the graph exactly as it was
\* before the call: same nodes, same edge lists, same order
C11_ErrorLeavesGraph ==
    ret = "runtime_error" => adjacency_list_ = pre

\* a modifier raised on a graph that stores edges
C11_Witness ==
    /\ op \in {"insert_edge", "replace_node", "merge_replace_node", "erase_edge", "erase_edge_range"}
    /\ ret = "runtime_error"
    /\ NumEdges(pre) > 0
    /\ adjacency_list_ = pre

\* the first and the second node argument of the recorded call are nodes
FirstIsNode == args.x \in DOMAIN pre
SecondIsNode == args.y \in DOMAIN pre

\* C12: insert_edge, merge_replace_node, is_connected, edges and erase_edge by
\* value raise iff one of their two node arguments is absent; replace_node
\* raises iff old is absent; connections raises iff src is absent;
\* insert_node, erase_node (absent node: false), find (absent node: end()),
\* is_node and nodes never raise
C12_NodeNotFoundIffAbsent ==
    /\ op \in {"insert_edge", "merge_replace_node", "is_connected", "edges", "erase_edge"}
          => ((ret = "runtime_error") <=> (~FirstIsNode \/ ~SecondIsNode))
    /\ op \in {"replace_node", "connections"}
          => ((ret = "runtime_error") <=> ~FirstIsNode)
    /\ op \in {"insert_node", "erase_node", "find", "is_node", "nodes"}
          => ret # "runtime_error"
    /\ op = "erase_node" /\ ~FirstIsNode => ret = "false"
    /\ op = "find" /\ (~FirstIsNode \/ ~SecondIsNode) => ret_it = end(pre)

\* is_connected raised with src a node and dst absent
C12_Witness ==
    /\ op = "is_connected"
    /\ FirstIsNode /\ ~SecondIsNode
    /\ ret = "runtime_error"

\* the edge insert_edge was asked to add
Asked == [src |-> args.x, to |-> args.y, weight |-> args.w]

\* C13: for existing src and dst, insert_edge returns true iff src's list
\* held no edge to dst with the same weight-signature; on true exactly that
\* one edge is added, every other edge and every node stays; on false the
\* graph is unchanged.  (An unweighted edge and edges of different weights
\* between the same nodes therefore coexist, and a second identical
\* insert_edge returns false.)
C13_InsertEdge ==
    (op = "insert_edge" /\ FirstIsNode /\ SecondIsNode) =>
        /\ ret \in {"true", "false"}
        /\ (ret = "true") <=> (Count(pre, Asked) = 0)
        /\ ret = "true" =>
              /\ DOMAIN adjacency_list_ = DOMAIN pre
              /\ \A n \in DOMAIN pre \ {args.x} : adjacency_list_[n] = pre[n]
              /\ \A t \in Triple :
                    Count(adjacency_list_, t) = Count(pre, t) + (IF t = Asked THEN 1 ELSE 0)
        /\ ret = "false" => adjacency_list_ = pre

\* a weighted edge was added next to the unweighted edge and an edge of
\* another weight between the same two nodes
C13_Witness ==
    /\ op = "insert_edge"
    /\ ret = "true"
    /\ args.w # nullopt
    /\ Count(pre, [Asked EXCEPT !.weight = nullopt]) = 1
    /\ \E w \in Weight \ {args.w} : Count(pre, [Asked EXCEPT !.weight = w]) = 1

\* the edge list is in canonical order
Canonical(list) ==
    \A k \in 1..(Len(list) - 1) : CanonicalLeq(list[k], list[k + 1])

\* no two edges of the list share destination and weight-signature
DuplicateFree(list) ==
    \A j, k \in 1..Len(list) :
        (j # k) => (list[j].to # list[k].to \/ list[j].weight # list[k].weight)

\* C14: for two distinct existing nodes old and new, after
\* merge_replace_node(old, new) the outgoing list of new is in canonical
\* order and holds no two edges with the same (destination,
\* weight-signature), also when an edge old->new or a self-loop old->old
\* collides after renaming with an edge new already had
C14_MergedListCanonical ==
    MergedDistinct =>
        /\ args.y \in DOMAIN adjacency_list_
        /\ Canonical(adjacency_list_[args.y])
        /\ DuplicateFree(adjacency_list_[args.y])

\* old had (old, new, w) or (old, old, w), new had (new, new, w), and one
\* (new, new, w) remains
C14_Witness ==
    /\ MergedDistinct
    /\ \E w \in OptWeight :
          /\ Count(pre, [src |-> args.y, to |-> args.y, weight |-> w]) = 1
          /\ \/ Count(pre, [src |-> args.x, to |-> args.y, weight |-> w]) = 1
             \/ Count(pre, [src |-> args.x, to |-> args.x, weight |-> w]) = 1
          /\ Count(adjacency_list_, [src |-> args.y, to |-> args.y, weight |-> w]) = 1

\* C15: erase_node(v) returns false and changes nothing when v is not a
\* node; when v is a node it returns true, removes v and every edge whose
\* source or destination is v (self-loops included), and leaves every other
\* node and every other edge unchanged and in the same relative order
C15_EraseNode ==
    (op = "erase_node") =>
        IF FirstIsNode
        THEN /\ ret = "true"
             /\ DOMAIN adjacency_list_ = DOMAIN pre \ {args.x}
             /\ Flat(adjacency_list_) =
                    SelectSeq(Flat(pre), LAMBDA t : t.src # args.x /\ t.to # args.x)
        ELSE /\ ret = "false"
             /\ adjacency_list_ = pre

\* the erased node had a self-loop and an incoming edge from another node,
\* and an edge that does not touch it was stored as well
C15_Witness ==
    /\ op = "erase_node"
    /\ ret = "true"
    /\ \E k \in 1..Len(pre[args.x]) : pre[args.x][k].to = args.x
    /\ \E n \in DOMAIN pre \ {args.x} : \E k \in 1..Len(pre[n]) : pre[n][k].to = args.x
    /\ NumEdges(adjacency_list_) > 0

\* C16: after any sequence of mutating calls and for existing src and dst,
\* edges(src, dst) returns copies of exactly the stored edges from src to
\* dst, the unweighted edge (if any) first, then the weighted edges in
\* strictly ascending order of weight
C16_EdgesOrdered ==
    (op = "edges" /\ FirstIsNode /\ SecondIsNode) =>
        /\ ret = "vector"
        /\ \A k \in 1..Len(ret_seq) : ret_seq[k].from = args.x /\ ret_seq[k].to = args.y
        /\ \A w \in OptWeight :
              Cardinality({k \in 1..Len(ret_seq) : ret_seq[k].weight = w})
                  = Count(pre, [src |-> args.x, to |-> args.y, weight |-> w])
        /\ \A k \in 1..(Len(ret_seq) - 1) :
              \/ ret_seq[k].weight = nullopt /\ ret_seq[k + 1].weight # nullopt
              \/ /\ ret_seq[k].weight # nullopt
                 /\ ret_seq[k + 1].weight # nullopt
                 /\ ret_seq[k].weight < ret_seq[k + 1].weight

\* a call of replace_node with old a node and new a node already
ReplacedOntoExisting ==
    /\ op = "replace_node"
    /\ FirstIsNode
    /\ SecondIsNode

\* C17: when old is a node and new is already a node (new equal to old
\* included), replace_node(old, new) returns false and the graph is
\* unchanged: the graph after the call is identical, and equal under
\* operator==, to the graph before it
C17_ReplaceOntoExisting ==
    ReplacedOntoExisting =>
        /\ ret = "false"
        /\ adjacency_list_ = pre
        /\ graph_equal(adjacency_list_, pre)

\* replace_node onto another existing node of a graph that stores edges
\* at both nodes
C17_Witness ==
    /\ ReplacedOntoExisting
    /\ args.x # args.y
    /\ pre[args.x] # <<>>
    /\ pre[args.y] # <<>>
    /\ ret = "false"

\* the edges a traversal yielded, as triples
Visited == [k \in 1..Len(ret_seq) |->
               [src |-> ret_seq[k].edge.from, to |-> ret_seq[k].edge.to,
                weight |-> ret_seq[k].edge.weight]]

\* C18: stepping an iterator from begin() with ++ until it equals end()
\* visits every stored edge exactly once, sources ascending and each list in
\* its order; it never rests on a node whose list is empty; it reaches end()
\* after exactly as many steps as there are edges; and begin() == end()
\* exactly when the graph has no edges
C18_TraversalVisitsAll ==
    (op = "traverse") =>
        /\ Visited = Flat(pre)
        /\ Len(ret_seq) = NumEdges(pre)
        /\ \A k \in 1..Len(ret_seq) :
              /\ ret_seq[k].at.node_it \in DOMAIN pre
              /\ ret_seq[k].at.edge_it \in 1..Len(pre[ret_seq[k].at.node_it])
        /\ \A j, k \in 1..Len(ret_seq) : (j # k) => (ret_seq[j].at # ret_seq[k].at)
        /\ iterator_equal(begin(pre), end(pre)) <=> (NumEdges(pre) = 0)

\* a traversal of a graph whose first, middle and last node in key order
\* alternate between empty and non-empty lists
C18_Witness ==
    /\ op = "traverse"
    /\ DOMAIN pre = Node
    /\ \/ pre[1] = <<>> /\ pre[2] # <<>> /\ pre[MaxNode] = <<>>
       \/ pre[1] # <<>> /\ pre[2] = <<>> /\ pre[MaxNode] # <<>>
    /\ Len(ret_seq) = NumEdges(pre)

\* C19: for every iterator p other than begin() of a graph with an edge
\* (end() included), --p denotes the edge immediately before p in flattened
\* order, empty nodes being skipped backward, trailing ones included when p
\* is end(); hence ++(--p) == p, and --(++q) == q for q other than end().
\* p is the iterator args.x steps after begin(), q the one before p.
C19_DecrementMirrors ==
    (op = "decrement") =>
        /\ Denotes(pre, ret_it, args.x - 1)
        /\ iterator_equal(ret_seq[1], IteratorAt(pre, args.x))
        /\ iterator_equal(ret_seq[2], IteratorAt(pre, args.x - 1))
        /\ Denotes(pre, IteratorAt(pre, args.x - 1), args.x - 1)
        /\ (args.x = NumEdges(pre)) <=> iterator_equal(IteratorAt(pre, args.x), end(pre))

\* --end() on a graph whose last node in key order has no edges, and --p
\* across an empty node in the middle
C19_Witness ==
    /\ op = "decrement"
    /\ DOMAIN pre = Node
    /\ \/ args.x = NumEdges(pre) /\ pre[MaxNode] = <<>>
       \/ /\ pre[2] = <<>>
          /\ pre[1] # <<>>
          /\ args.x = Len(pre[1])
          /\ args.x < NumEdges(pre)
    /\ Denotes(pre, ret_it, args.x - 1)

\* C20: erase_edge(i) removes exactly the one edge denoted by i and leaves
\* every node and every other edge unchanged and in the same order; when i
\* equals end() (empty graph, or graph without edges) it changes nothing
\* and returns end().  i is the iterator args.x steps after begin().
C20_EraseOneEdge ==
    (op = "erase_edge_it") =>
        IF args.x < NumEdges(pre)
        THEN /\ Denotes(pre, IteratorAt(pre, args.x), args.x)
             /\ DOMAIN adjacency_list_ = DOMAIN pre
             /\ Flat(adjacency_list_) = Without(Flat(pre), args.x, args.x + 1)
        ELSE /\ iterator_equal(IteratorAt(pre, args.x), end(pre))
             /\ adjacency_list_ = pre
             /\ iterator_equal(ret_it, end(pre))

\* the erased edge was followed by another edge of the same node and
\* preceded by an edge of an earlier node
C20_Witness ==
    /\ op = "erase_edge_it"
    /\ args.x >= 1
    /\ args.x + 1 < NumEdges(pre)
    /\ Flat(pre)[args.x + 1].src = Flat(pre)[args.x + 2].src
    /\ Flat(pre)[args.x].src # Flat(pre)[args.x + 1].src
    /\ NumEdges(adjacency_list_) = NumEdges(pre) - 1

\* the values operator* yields along the loop from begin() to end()
Iterated(adj) ==
    LET visits == traverse(adj, begin(adj))
    IN  [k \in 1..Len(visits) |-> visits[k].edge]

\* C21: two sequences of insert_node and insert_edge calls that insert the
\* same set of nodes and the same set of edges, in any order and with any
\* repetitions, produce graphs with identical nodes(), identical flattened
\* iteration sequences, and that compare equal with operator==
C21_InsertionOrderIrrelevant ==
    (inserted.this = inserted.other) =>
        /\ nodes(adjacency_list_) = nodes(other)
        /\ Iterated(adjacency_list_) = Iterated(other)
        /\ graph_equal(adjacency_list_, other)
        /\ (op = "operator==") => (ret = "true")

\* two graphs given the same two edges out of one node were compared
C21_Witness ==
    /\ op = "operator=="
    /\ ret = "true"
    /\ inserted.this = inserted.other
    /\ \E e, f \in inserted.this.edges : e # f /\ e[1] = f[1]

\* C22: after copy-constructing or copy-assigning g2 from g1, g2 == g1 holds
\* and g2 has the same nodes and the same per-node edge sequences as g1 (g1
\* being what it was); a later mutating call on g2 leaves g1's nodes and
\* edges unchanged, and one on g1 leaves g2's unchanged
C22_CopyIsIndependent ==
    /\ op \in {"copy_construct", "copy_assign"} =>
          /\ adjacency_list_ = pre
          /\ DOMAIN other = DOMAIN adjacency_list_
          /\ \A n \in DOMAIN other : other[n] = adjacency_list_[n]
          /\ nodes(other) = nodes(adjacency_list_)
          /\ graph_equal(other, adjacency_list_)
    /\ op = "mutate_copy" => adjacency_list_ = pre
    /\ op = "mutate_source" => other = pre

\* the copy of a graph with a weighted and an unweighted edge was changed
\* by a call and the original still holds both edges
C22_Witness ==
    /\ op = "mutate_copy"
    /\ other # adjacency_list_
    /\ adjacency_list_ = pre
    /\ \E n \in DOMAIN pre : \E j, k \in 1..Len(pre[n]) :
          pre[n][j].weight = nullopt /\ pre[n][k].weight # nullopt

\* C23: after move-constructing or move-assigning g2 from a different graph
\* g1, g2 holds exactly the nodes and edges g1 held before the move and g1
\* is empty (no nodes, no edges, empty() is true); move-assigning a graph to
\* itself leaves it unchanged
C23_MoveEmptiesSource ==
    /\ op \in {"move_construct", "move_assign"} =>
          /\ other = pre
          /\ DOMAIN adjacency_list_ = {}
          /\ NumEdges(adjacency_list_) = 0
          /\ empty(adjacency_list_)
    /\ op = "move_assign_self" => adjacency_list_ = pre

\* a graph with nodes and edges was moved into a new graph
C23_Witness ==
    /\ op = "move_construct"
    /\ NumEdges(pre) >= 2
    /\ other = pre
    /\ empty(adjacency_list_)

\* the flattened positions (counted from 0) at which the edge asked for is stored
AskedAt == {p \in 0..(NumEdges(pre) - 1) : Flat(pre)[p + 1] = Asked}

\* C24: find(src, dst, weight) returns an iterator that dereferences to
\* {src, dst, weight} and sits at that edge's position in flattened order
\* (so that ++ leads to the following edge) if and only if an edge src->dst
\* with exactly that weight-signature is stored; otherwise it returns end(),
\* also when src or dst is not a node.  A search without weight never
\* matches a weighted edge, one with a weight never the unweighted edge.
C24_FindLocatesEdge ==
    (op = "find") =>
        IF AskedAt # {}
        THEN /\ ~iterator_equal(ret_it, end(pre))
             /\ dereference(pre, ret_it) = [from |-> args.x, to |-> args.y, weight |-> args.w]
             /\ \E p \in AskedAt :
                   /\ Denotes(pre, ret_it, p)
                   /\ iterator_equal(increment(pre, ret_it), IteratorAt(pre, p + 1))
        ELSE iterator_equal(ret_it, end(pre))

\* C24 on the graphs in which every destination is a node
C24_AmongNodes ==
    (\A n \in DOMAIN pre : \A k \in 1..Len(pre[n]) : pre[n][k].to \in DOMAIN pre)
        => C24_FindLocatesEdge

\* C25: after any sequence of mutating calls and for every existing node
\* src, connections(src) returns the destinations of src's outgoing edges,
\* one entry per outgoing edge and of outgoing edges only, sorted ascending
C25_ConnectionsAscending ==
    (op = "connections" /\ FirstIsNode) =>
        /\ ret = "vector"
        /\ Len(ret_seq) = Len(pre[args.x])
        /\ \A d \in Node :
              Cardinality({k \in 1..Len(ret_seq) : ret_seq[k] = d})
                  = Cardinality({k \in 1..Len(pre[args.x]) : pre[args.x][k].to = d})
        /\ \A k \in 1..(Len(ret_seq) - 1) : ret_seq[k] <= ret_seq[k + 1]

\* the values of a sequence
Range(seq) == {seq[k] : k \in 1..Len(seq)}

\* C26: for every sequence of node insertions (insert_node calls, the list
\* constructor, the range constructor), nodes() is the set of inserted
\* values without duplicates in ascending order, is_node(v) is true exactly
\* for the members of that set, and insert_node(v) returns true exactly when
\* v was not a node before the call, adding v with an empty outgoing list
\* and changing nothing else.  Stated per call: a constructor yields the
\* values of its list as nodes without edges, insert_node adds its value to
\* the nodes there were, and nodes() and is_node report the node set.
C26_NodesAreInsertedSet ==
    /\ op = "construct" =>
          /\ DOMAIN adjacency_list_ = Range(ret_seq)
          /\ \A n \in DOMAIN adjacency_list_ : adjacency_list_[n] = <<>>
          /\ Len(nodes(adjacency_list_)) = Cardinality(Range(ret_seq))
    /\ op = "insert_node" =>
          /\ (ret = "true") <=> ~FirstIsNode
          /\ (ret = "false") <=> FirstIsNode
          /\ DOMAIN adjacency_list_ = DOMAIN pre \cup {args.x}
          /\ \A n \in DOMAIN pre : adjacency_list_[n] = pre[n]
          /\ ~FirstIsNode => adjacency_list_[args.x] = <<>>
    /\ op = "nodes" =>
          /\ Range(ret_seq) = DOMAIN pre
          /\ \A k \in 1..(Len(ret_seq) - 1) : ret_seq[k] < ret_seq[k + 1]
    /\ op = "is_node" => ((ret = "true") <=> FirstIsNode)
    /\ Range(nodes(adjacency_list_)) = DOMAIN adjacency_list_
    /\ \A k \in 1..(Len(nodes(adjacency_list_)) - 1) :
          nodes(adjacency_list_)[k] < nodes(adjacency_list_)[k + 1]

\* a constructor was given a list that repeats a value and is not ascending
C26_Witness ==
    /\ op = "construct"
    /\ Len(ret_seq) > Cardinality(Range(ret_seq))
    /\ \E k \in 1..(Len(ret_seq) - 1) : ret_seq[k] > ret_seq[k + 1]
    /\ DOMAIN adjacency_list_ = Range(ret_seq)

\* C27: two iterators compare equal only if they denote the same traversal
\* position within the same graph instance: begin()/end() of two different
\* graphs never compare equal (even when both graphs are empty), two
\* iterators of one graph are equal exactly when they denote the same
\* position (all end positions being equal), and two default-constructed
\* iterators compare equal to each other
C27_IteratorEquality ==
    (op = "iterator==") =>
        ((ret = "true") <=>
            /\ ret_seq[1].g = ret_seq[2].g
            /\ ret_seq[1].g = "none" \/ ret_seq[1].pos = ret_seq[2].pos)

\* begin() of a graph with edges was compared with begin() of its copy
C27_Witness ==
    /\ op = "iterator=="
    /\ NumEdges(adjacency_list_) > 0
    /\ other = adjacency_list_
    /\ ret_seq[1].g = "g1" /\ ret_seq[1].pos = 0
    /\ ret_seq[2].g = "g2" /\ ret_seq[2].pos = 0
    /\ ret = "false"

\* the lines the dump of node n is to consist of, the edge lines in list order
RECURSIVE BlocksFrom(_, _)
BlocksFrom(adj, n) ==
    IF n > MaxNode THEN <<>>
    ELSE (IF n \in DOMAIN adj
          THEN <<[kind |-> "node", from |-> n, to |-> n, tag |-> "(", weight |-> nullopt]>>
               \o [k \in 1..Len(adj[n]) |->
                      [kind |-> "edge", from |-> n, to |-> adj[n][k].to,
                       tag |-> IF adj[n][k].weight = nullopt THEN "U" ELSE "W",
                       weight |-> adj[n][k].weight]]
               \o <<[kind |-> "close", from |-> node_end, to |-> node_end, tag |-> ")", weight |-> nullopt]>>
          ELSE <<>>)
         \o BlocksFrom(adj, n + 1)

\* C28: the formatted dump lists every node in ascending order, a node
\* without edges as its opening line followed directly by the closing line,
\* and beneath each node exactly that node's outgoing edges, one per line,
\* in canonical order (destination ascending, unweighted before weighted,
\* weight ascending); the dump of an empty graph is empty
C28_DumpCanonical ==
    (op = "operator<<") =>
        /\ ret_seq = BlocksFrom(pre, 1)
        /\ (DOMAIN pre = {}) => (ret_seq = <<>>)
        /\ \A k \in 1..(Len(ret_seq) - 1) :
              (ret_seq[k].kind = "edge" /\ ret_seq[k + 1].kind = "edge")
                  => CanonicalLeq(ret_seq[k], ret_seq[k + 1])

\* C28 without the order of the edge lines
C28_DumpListsAll ==
    (op = "operator<<") => (ret_seq = BlocksFrom(pre, 1))

\* C29: after any sequence of mutating operations the source and the
\* destination of every stored edge are nodes of the graph
C29_EdgesReferToNodes ==
    \A n \in DOMAIN adjacency_list_ :
        \A k \in 1..Len(adjacency_list_[n]) :
            /\ is_node(adjacency_list_, adjacency_list_[n][k].from)
            /\ is_node(adjacency_list_, adjacency_list_[n][k].to)

\* C30: for an existing node v, merge_replace_node(v, v) leaves the graph
\* unchanged: v is still a node and every edge is still present
C30_MergeSelfIsNoOp ==
    (op = "merge_replace_node" /\ args.x = args.y /\ is_node(pre, args.x)) =>
        /\ is_node(adjacency_list_, args.x)
        /\ adjacency_list_ = pre

\* the edge lines of a dump, as the triples they show
DumpedEdges(lines) ==
    LET shown == SelectSeq(lines, LAMBDA l : l.kind = "edge")
    IN  [k \in 1..Len(shown) |->
            [from |-> shown[k].from, to |-> shown[k].to, weight |-> shown[k].weight]]

\* C31: after any sequence of mutating operations every edge stored in the
\* list of node n has its own source field equal to n, so the source that
\* iterator dereference reports (the map key) agrees with the source that
\* edges() and the formatted dump report (the edge's own field)
C31_SourceFieldIsKey ==
    /\ \A n \in DOMAIN adjacency_list_ :
          \A k \in 1..Len(adjacency_list_[n]) : adjacency_list_[n][k].from = n
    /\ (op = "edges" /\ ret # "runtime_error") =>
          \A k \in 1..Len(ret_seq) : ret_seq[k].from = args.x
    /\ (op = "operator<<") => (DumpedEdges(ret_seq) = Iterated(pre))
    /\ (op = "traverse") =>
          \A k \in 1..Len(ret_seq) :
              ret_seq[k].edge.from = pre[ret_seq[k].at.node_it][ret_seq[k].at.edge_it].from

\* replace_node renamed a node that had outgoing edges and an incoming edge
\* from another node
C31_Witness ==
    /\ op = "replace_node" /\ ret = "true"
    /\ adjacency_list_[args.y] # <<>>
    /\ \E n \in DOMAIN adjacency_list_ \ {args.y} :
          \E k \in 1..Len(adjacency_list_[n]) : adjacency_list_[n][k].to = args.y

\* C32: if a is a node and b is not a node of a graph built by insert_node
\* and insert_edge, replace_node(a, b) followed by replace_node(b, a) both
\* return true and restore the original graph: the same node set and, for
\* every node, the same outgoing edge sequence as before the two calls
C32_ReplaceRoundTrip ==
    (op = "replace_back" /\ is_node(pre, args.x) /\ ~is_node(pre, args.y)) =>
        /\ ret_seq = <<"true", "true">>
        /\ DOMAIN adjacency_list_ = DOMAIN pre
        /\ \A n \in DOMAIN pre : adjacency_list_[n] = pre[n]

\* the round trip was made on a node a with outgoing edges, among them a
\* self-loop, and another node held an edge to a followed by an edge to a
\* destination smaller than b, so that its list was out of order in between
C32_Witness ==
    /\ op = "replace_back" /\ is_node(pre, args.x) /\ ~is_node(pre, args.y)
    /\ \E k \in 1..Len(pre[args.x]) : pre[args.x][k].to = args.x
    /\ \E n \in DOMAIN pre \ {args.x} :
          \E k \in 1..(Len(pre[n]) - 1) :
              /\ pre[n][k].to = args.x
              /\ pre[n][k + 1].to < args.y

====
